---- MODULE Spec2Model ----
(***************************************************************************)
(* Command registry and calculation history of the interactive calculator. *)
(*                                                                         *)
(*   app/commands/__init__.py          CommandHandler                      *)
(*   app/calculator/operations.py      ArithmeticOperations                *)
(*   app/calculator/calculation.py     Calculation                         *)
(*   app/calculator/calculations.py    CalculationHistory (+ CSV file)     *)
(*   app/calculator/__init__.py        Calculator facade                   *)
(*   app/__init__.py                   App.start (the REPL loop)           *)
(***************************************************************************)
EXTENDS Integers, Sequences, FiniteSets, TLC

VARIABLES
    history,        \* CalculationHistory._history: sequence of Calculation
    file,           \* the backing CSV file (DATA_DIR/CALC_HISTORY_FILE)
    last,           \* the history/facade operation performed last and its outcome
    calls,          \* facade calls made since the history was last cleared (ghost)
    commands,       \* CommandHandler.commands: insertion-ordered dict
    registrations,  \* every register_command call so far, in order (ghost)
    raised,         \* some dispatched command has raised so far (ghost)
    disp,           \* the registry operation performed last and its outcome
    repl,           \* App.start: position, lines read, log, way of ending
    view,           \* the list a caller received from get_history and kept
    sub             \* the sub-prompt of a command: position, line read, output

vars == <<history, file, last, calls, commands, registrations, raised, disp, repl,
          view, sub>>

histVars == <<history, file, last, calls, view>>
regVars  == <<commands, registrations, raised, disp, repl, sub>>

----------------------------------------------------------------------------
(* Bounds                                                                  *)

MaxHist  == 3     \* longest in-memory history explored
MaxCalls == 3     \* longest run of facade calls explored
MaxRegs  == 3     \* most register_command calls explored
MaxUtil  == 1     \* longest history explored under calls of calc_utils
MaxLines == 3     \* most input lines read by one run of App.start

----------------------------------------------------------------------------
(* decimal.Decimal: coefficient c, exponent e (value c * 10^e).  bin marks *)
(* the exact expansion of the binary64 number nearest to c * 10^e when     *)
(* that number differs from c * 10^e (Decimal(0.1) is                      *)
(* 0.1000000000000000055511151231257827..., not 0.1).  inf marks          *)
(* Decimal('Infinity') (c = 1) and Decimal('-Infinity') (c = -1).          *)

RECURSIVE Pow(_, _)
Pow(b, n) == IF n <= 0 THEN 1 ELSE b * Pow(b, n - 1)

Dec(c, e) == [c |-> c, e |-> e, bin |-> FALSE, inf |-> FALSE]

Infinity(sign) == [c |-> sign, e |-> 0, bin |-> FALSE, inf |-> TRUE]

Sign(a) == IF a.c < 0 THEN 0 - 1 ELSE 1

Min(a, b) == IF a < b THEN a ELSE b

\* Decimal.__eq__: equality of value, not of representation.
DecEq(a, b) ==
    LET m == Min(a.e, b.e)
    IN  /\ a.bin = b.bin
        /\ a.inf = b.inf
        /\ a.c * Pow(10, a.e - m) = b.c * Pow(10, b.e - m)

DecIsZero(a) == ~a.inf /\ a.c = 0

\* The shortest representation of the value: no positive exponent, no
\* trailing zero after the point.
RECURSIVE Normalize(_)
Normalize(d) ==
    IF d.e > 0 THEN [d EXCEPT !.c = d.c * Pow(10, d.e), !.e = 0]
    ELSE IF d.e < 0 /\ d.c % 10 = 0
         THEN Normalize([d EXCEPT !.c = d.c \div 10, !.e = d.e + 1])
         ELSE d

\* Decimal(int)
DecimalFromInt(cell) == Dec(cell.c, 0)

\* Decimal(float) of the float parsed from a numeral: exact when the value
\* is a binary fraction (5^k divides the coefficient at k decimals), the
\* neighbouring binary64 number otherwise.
DecimalFromFloat(cell) ==
    LET n == Normalize(Dec(cell.c, cell.e))
    IN  IF cell.inf THEN Infinity(cell.c)
        ELSE IF n.c % Pow(5, 0 - n.e) = 0 THEN n ELSE [n EXCEPT !.bin = TRUE]

\* Decimal(str): the numeral as written.
DecimalFromStr(cell) ==
    [c |-> cell.c, e |-> cell.e, bin |-> cell.bin, inf |-> cell.inf]

----------------------------------------------------------------------------
(* ArithmeticOperations                                                    *)

\* The result of a call: the value returned, or the exception raised.
\* decimal.InvalidOperation (Infinity - Infinity, 0 * Infinity,
\* Infinity / Infinity) is trapped by the default context; it is not a
\* ZeroDivisionError.
RaisedZeroDivision ==
    [ok |-> FALSE, val |-> Dec(0, 0), exact |-> TRUE, err |-> "ZeroDivisionError"]
RaisedInvalidOperation ==
    [ok |-> FALSE, val |-> Dec(0, 0), exact |-> TRUE, err |-> "InvalidOperation"]
Returned(v, x) == [ok |-> TRUE, val |-> v, exact |-> x, err |-> ""]

addition(num1, num2) ==
    LET m == Min(num1.e, num2.e)
    IN  IF num1.inf /\ num2.inf
        THEN IF num1.c = num2.c THEN Returned(num1, TRUE) ELSE RaisedInvalidOperation
        ELSE IF num1.inf THEN Returned(num1, TRUE)
        ELSE IF num2.inf THEN Returned(num2, TRUE)
        ELSE
        Returned([c |-> num1.c * Pow(10, num1.e - m) + num2.c * Pow(10, num2.e - m),
                  e |-> m, bin |-> num1.bin \/ num2.bin, inf |-> FALSE], TRUE)

\* A subtraction written with the operator of the addition.
subtraction_as_addition(num1, num2) ==
    addition(num1, num2)

subtraction(num1, num2) ==
    LET m == Min(num1.e, num2.e)
    IN  IF num1.inf /\ num2.inf
        THEN IF num1.c # num2.c THEN Returned(num1, TRUE) ELSE RaisedInvalidOperation
        ELSE IF num1.inf THEN Returned(num1, TRUE)
        ELSE IF num2.inf THEN Returned(Infinity(0 - num2.c), TRUE)
        ELSE
        Returned([c |-> num1.c * Pow(10, num1.e - m) - num2.c * Pow(10, num2.e - m),
                  e |-> m, bin |-> num1.bin \/ num2.bin, inf |-> FALSE], TRUE)

multiplication(num1, num2) ==
    IF num1.inf \/ num2.inf
    THEN IF DecIsZero(num1) \/ DecIsZero(num2) THEN RaisedInvalidOperation
         ELSE Returned(Infinity(Sign(num1) * Sign(num2)), TRUE)
    ELSE
    Returned([c |-> num1.c * num2.c, e |-> num1.e + num2.e,
              bin |-> num1.bin \/ num2.bin, inf |-> FALSE], TRUE)

\* The quotient is exact when it terminates within MaxScale more digits;
\* otherwise Decimal rounds it to the context precision (exact = FALSE).
MaxScale == 2

Abs(x) == IF x < 0 THEN 0 - x ELSE x

\* num1 / num2 for a divisor that is not zero
quotient(num1, num2) ==
    IF num1.inf /\ num2.inf THEN RaisedInvalidOperation
    ELSE IF num1.inf THEN Returned(Infinity(Sign(num1) * Sign(num2)), TRUE)
    ELSE IF num2.inf THEN Returned(Dec(0, 0), TRUE)
    ELSE LET sg == Sign(num1) * Sign(num2)
             n  == Abs(num1.c)
             d  == Abs(num2.c)
             ks == {k \in 0..MaxScale : (n * Pow(10, k)) % d = 0}
         IN  IF ks = {}
             THEN Returned([c |-> sg * ((n * Pow(10, MaxScale)) \div d),
                            e |-> num1.e - num2.e - MaxScale,
                            bin |-> num1.bin \/ num2.bin, inf |-> FALSE], FALSE)
             ELSE LET k == CHOOSE j \in ks : \A i \in ks : j <= i
                  IN  Returned([c |-> sg * ((n * Pow(10, k)) \div d),
                                e |-> num1.e - num2.e - k,
                                bin |-> num1.bin \/ num2.bin, inf |-> FALSE], TRUE)

\* A division without the test of the divisor: num1 / num2 of the decimal
\* module, where 0 / 0 is an InvalidOperation and Infinity / 0 is Infinity.
division_unchecked(num1, num2) ==
    IF ~DecIsZero(num2) THEN quotient(num1, num2)
    ELSE IF DecIsZero(num1) THEN RaisedInvalidOperation
    ELSE IF num1.inf THEN Returned(Infinity(Sign(num1)), TRUE)
    ELSE RaisedZeroDivision

division(num1, num2) ==
    IF DecIsZero(num2) THEN RaisedZeroDivision
    ELSE quotient(num1, num2)

OperationNames == {"addition", "subtraction", "multiplication", "division"}

\* Calling the function object whose __name__ is op.
Apply(op, num1, num2) ==
    CASE op = "addition"       -> addition(num1, num2)
      [] op = "subtraction"    -> subtraction(num1, num2)
      [] op = "multiplication" -> multiplication(num1, num2)
      [] op = "division"       -> division(num1, num2)

----------------------------------------------------------------------------
(* Calculation                                                             *)

create_calculation(num1, num2, operation) ==
    [num1 |-> num1, num2 |-> num2, operation |-> operation]

\* A compute that hands the operands over in the opposite order.
compute_swapped(calculation) ==
    Apply(calculation.operation, calculation.num2, calculation.num1)

compute(calculation) ==
    Apply(calculation.operation, calculation.num1, calculation.num2)

----------------------------------------------------------------------------
(* The backing file.  kind is "absent" (no such file), "empty" (zero       *)
(* bytes), "unreadable" (read_csv fails otherwise) or "csv" (a header row  *)
(* and rows, possibly none).  A cell is a numeral or some other text.      *)

NumCell(d) == [kind |-> "num", c |-> d.c, e |-> d.e, bin |-> d.bin, inf |-> d.inf]
TextCell   == [kind |-> "text", c |-> 0, e |-> 0, bin |-> FALSE, inf |-> FALSE]

Absent        == [kind |-> "absent", rows |-> <<>>]
EmptyFile     == [kind |-> "empty", rows |-> <<>>]
Unreadable    == [kind |-> "unreadable", rows |-> <<>>]
CsvFile(rows) == [kind |-> "csv", rows |-> rows]

Row(op, o1, o2) == [op |-> op, o1 |-> o1, o2 |-> o2]

\* DataFrame([{fld_Operation, fld_Operand1, fld_Operand2} for calc in history])
\* written by to_csv: str() of each operand, one record per entry.
to_csv(h) ==
    CsvFile([k \in 1..Len(h) |->
                Row(h[k].operation, NumCell(h[k].num1), NumCell(h[k].num2))])

\* A save that appends its records to the records already in the file.
save_appending(h, f) ==
    IF h = <<>> THEN f
    ELSE IF f.kind = "csv" THEN CsvFile(f.rows \o to_csv(h).rows) ELSE to_csv(h)

\* A save without the early return: an empty history writes the header row.
save_always(h, f) == to_csv(h)

\* A save that opens the file for writing before it looks at the history,
\* so that an empty history leaves a file of zero bytes.
save_truncating(h, f) == IF h = <<>> THEN EmptyFile ELSE to_csv(h)

\* The file after save_history_to_csv: nothing is written for an empty history.
save_history_to_csv(h, f) == IF h = <<>> THEN f ELSE to_csv(h)

\* read_csv infers one dtype per column from all of its cells.
IsIntCell(cell) == cell.kind = "num" /\ ~cell.bin /\ ~cell.inf /\ cell.e = 0

col_dtype(cells) ==
    IF \A k \in 1..Len(cells) : IsIntCell(cells[k]) THEN "int64"
    ELSE IF \A k \in 1..Len(cells) : cells[k].kind = "num" THEN "float64"
    ELSE "object"

\* Decimal(row[...]) raises InvalidOperation for text that is no numeral.
ConvertRaises(dtype, cell) == dtype = "object" /\ cell.kind = "text"

ConvertCell(dtype, cell) ==
    CASE dtype = "int64"   -> DecimalFromInt(cell)
      [] dtype = "float64" -> DecimalFromFloat(cell)
      [] OTHER             -> DecimalFromStr(cell)

operation_mapping == OperationNames

\* A read_csv that hands back an empty frame for a zero-byte file.
read_csv_empty_frame(f) ==
    CASE f.kind = "absent"     -> [raises |-> "FileNotFoundError", rows |-> <<>>]
      [] f.kind = "unreadable" -> [raises |-> "Exception", rows |-> <<>>]
      [] OTHER                 -> [raises |-> "", rows |-> f.rows]

\* pd.read_csv(file_path): the rows of the frame, or the exception raised.
read_csv(f) ==
    CASE f.kind = "absent"     -> [raises |-> "FileNotFoundError", rows |-> <<>>]
      [] f.kind = "empty"      -> [raises |-> "EmptyDataError", rows |-> <<>>]
      [] f.kind = "unreadable" -> [raises |-> "Exception", rows |-> <<>>]
      [] OTHER                 -> [raises |-> "", rows |-> f.rows]

\* A filter that lets every record through (an unknown name then maps to
\* the fallback lambda of operation_mapping.get).
KeptRowsUnfiltered(rows) == rows

\* The rows the comprehension keeps: the filter runs before any conversion.
KeptRows(rows) == SelectSeq(rows, LAMBDA r : r.op \in operation_mapping)

\* A load that empties the history and appends record by record, so that
\* the records before the first one that cannot be converted stay loaded.
LoadFrameRecordByRecord(h, df) ==
    IF df.raises # "" THEN [history |-> h, res |-> df.raises]
        ELSE
          LET rows == df.rows
              t1   == col_dtype([k \in 1..Len(rows) |-> rows[k].o1])
              t2   == col_dtype([k \in 1..Len(rows) |-> rows[k].o2])
              kept == KeptRows(rows)
              bad  == {k \in 1..Len(kept) :
                          ConvertRaises(t1, kept[k].o1) \/ ConvertRaises(t2, kept[k].o2)}
              n    == IF bad = {} THEN Len(kept)
                      ELSE (CHOOSE k \in bad : \A j \in bad : k <= j) - 1
          IN  [history |-> [k \in 1..n |->
                               create_calculation(ConvertCell(t1, kept[k].o1),
                                                  ConvertCell(t2, kept[k].o2),
                                                  kept[k].op)],
               res |-> IF bad = {} THEN "loaded" ELSE "Exception"]

\* The body of the try block given the outcome of read_csv: the history is
\* assigned only after every kept row has been converted.
LoadFrame(h, df) ==
    IF df.raises # "" THEN [history |-> h, res |-> df.raises]
        ELSE
          LET rows == df.rows
              t1   == col_dtype([k \in 1..Len(rows) |-> rows[k].o1])
              t2   == col_dtype([k \in 1..Len(rows) |-> rows[k].o2])
              kept == KeptRows(rows)
          IN  IF \E k \in 1..Len(kept) :
                     ConvertRaises(t1, kept[k].o1) \/ ConvertRaises(t2, kept[k].o2)
              THEN [history |-> h, res |-> "Exception"]
              ELSE [history |-> [k \in 1..Len(kept) |->
                                   create_calculation(ConvertCell(t1, kept[k].o1),
                                                      ConvertCell(t2, kept[k].o2),
                                                      kept[k].op)],
                    res |-> "loaded"]

\* A load that empties the history before it reads the file.
load_after_clear(h, f) == LoadFrame(<<>>, read_csv(f))

\* load_history_from_csv: the new history and which branch was taken.
load_history_from_csv(h, f) == LoadFrame(h, read_csv(f))

----------------------------------------------------------------------------
(* CalculationHistory                                                      *)

\* An add that inserts the new entry in front (list.insert(0, ...)).
add_calculation_front(h, calculation) == <<calculation>> \o h

add_calculation(h, calculation) == Append(h, calculation)

\* A write-through on every addition, as delete_calculation_by_index has.
write_through_on_add(h, f) == save_history_to_csv(h, f)

\* The file after add_calculation: the method only appends to the list,
\* it makes no call that writes.
file_after_add(h, f) == f

get_history(h) == h

\* No list is held by a caller.
NoView == [held |-> FALSE, alias |-> FALSE, val |-> <<>>]

\* What the caller of get_history holds: `return cls._history` hands out
\* the list object itself (alias), not a copy, so its content is the
\* history for as long as cls._history is that object.
ReturnedView(h) == [held |-> TRUE, alias |-> TRUE, val |-> <<>>]

\* cls._history is assigned a new list: a list handed out before keeps
\* the old content and is the history no longer.
Rebound(v, h) == IF v.alias THEN [v EXCEPT !.alias = FALSE, !.val = h] ELSE v

\* The content of the list the caller holds.
ViewContent(v, h) == IF v.alias THEN h ELSE v.val

\* A clear that keeps the most recent entry.
clear_keep_latest(h) == IF h # <<>> THEN <<h[Len(h)]>> ELSE <<>>

\* cls._history.clear()
clear_history(h) == <<>>

\* A lookup of the oldest entry (cls._history[0]).
get_oldest_history(h) == IF h # <<>> THEN <<h[1]>> ELSE <<>>

\* The entry returned, as a sequence of one; <<>> for None.
get_latest_history(h) == IF h # <<>> THEN <<h[Len(h)]>> ELSE <<>>

\* A deletion that drops the last entry whatever the index (list.pop()).
DelLast(h, index) == SubSeq(h, 1, Len(h) - 1)

\* del cls._history[index]: index zero-based, a negative one counts from
\* the end as Python's lists do.
DelAt(h, index) ==
    LET i == IF index < 0 THEN index + Len(h) ELSE index
    IN  [k \in 1..(Len(h) - 1) |-> IF k <= i THEN h[k] ELSE h[k + 1]]

\* A range check without the lower bound, so Python's negative indices pass.
InRangeNegative(h, index) == (0 - Len(h)) <= index /\ index < Len(h)

InRange(h, index) == 0 <= index /\ index < Len(h)

DidOut(op, idx, res, arg, out) ==
    [op |-> op, idx |-> idx, res |-> res, arg |-> arg, out |-> out]

DidWith(op, idx, res, arg) == DidOut(op, idx, res, arg, <<>>)

Did(op, idx, res) == DidWith(op, idx, res, <<>>)

\* A facade that computes first and records only what succeeded.
calculate_then_record(h, a, b, operation) ==
    LET calculation == create_calculation(a, b, operation)
        result      == compute(calculation)
    IN  [history |-> IF result.ok THEN add_calculation(h, calculation) ELSE h,
         result  |-> result]

\* Calculator._calculate_and_record: the entry is appended, then computed.
calculate_and_record(h, a, b, operation) ==
    LET calculation == create_calculation(a, b, operation)
    IN  [history |-> add_calculation(h, calculation),
         result  |-> compute(calculation)]

\* Calculator.add / subtract / multiply / divide
FacadeMethods == {"add", "subtract", "multiply", "divide"}

\* A facade in which divide delegates to the multiplication.
FacadeOperationCopied(method) ==
    CASE method = "add"      -> "addition"
      [] method = "subtract" -> "subtraction"
      [] method = "multiply" -> "multiplication"
      [] method = "divide"   -> "multiplication"

FacadeOperation(method) ==
    CASE method = "add"      -> "addition"
      [] method = "subtract" -> "subtraction"
      [] method = "multiply" -> "multiplication"
      [] method = "divide"   -> "division"

----------------------------------------------------------------------------
(* Actions on the history and its file                                     *)

Pool ==
    { create_calculation(Dec(5, 0), Dec(3, 0), "addition"),
      create_calculation(Dec(1, 0), Dec(0, 0), "division"),
      create_calculation(Dec(1, -1), Dec(2, -1), "subtraction") }

OperandPairs ==
    { <<Dec(5, 0), Dec(3, 0)>>, <<Dec(20, 0), Dec(4, 0)>>, <<Dec(1, 0), Dec(0, 0)>>,
      <<Infinity(1), Dec(0, 0)>> }

Indices == (0 - 1)..MaxHist

AddCalculation ==
    /\ Len(history) < MaxHist
    /\ \E calculation \in Pool :
          /\ history' = add_calculation(history, calculation)
          /\ last' = DidWith("add", 0, "ok", <<calculation>>)
    /\ file' = file_after_add(history', file)
    /\ UNCHANGED calls
    /\ UNCHANGED view
    /\ UNCHANGED regVars

ClearHistory ==
    /\ history' = clear_history(history)
    /\ last' = Did("clear", Len(history), "ok")
    /\ calls' = <<>>
    /\ UNCHANGED file
    /\ UNCHANGED view
    /\ UNCHANGED regVars

GetHistory ==
    /\ last' = Did("get", Len(get_history(history)), "ok")
    /\ UNCHANGED <<history, file, calls>>
    /\ UNCHANGED view
    /\ UNCHANGED regVars

\* A caller calls get_history and keeps the list it received.
KeepHistory ==
    /\ view' = ReturnedView(get_history(history))
    /\ last' = Did("keep", Len(get_history(history)), "ok")
    /\ UNCHANGED <<history, file, calls>>
    /\ UNCHANGED regVars

\* The caller appends to, or clears, the list it holds.
CallerModifies ==
    /\ view.held
    /\ \E how \in {"append", "clear"} :
          LET old == ViewContent(view, history)
              new == IF how = "clear" THEN <<>>
                     ELSE Append(old, create_calculation(Dec(9, 0), Dec(9, 0),
                                                         "multiplication"))
          IN  /\ Len(new) <= MaxHist
              /\ IF view.alias
                 THEN history' = new /\ view' = view
                 ELSE history' = history /\ view' = [view EXCEPT !.val = new]
              /\ last' = Did("caller", Len(old), how)
    /\ UNCHANGED <<file, calls>>
    /\ UNCHANGED regVars

GetLatestHistory ==
    /\ last' = DidWith("latest", 0,
                       IF get_latest_history(history) = <<>> THEN "None" ELSE "entry",
                       get_latest_history(history))
    /\ UNCHANGED <<history, file, calls>>
    /\ UNCHANGED view
    /\ UNCHANGED regVars

\* The operands the four operations are called with directly.
Operands ==
    { Dec(0, 0), Dec(0, 0 - 2), Dec(5, 0), Dec(0 - 3, 0), Dec(20, 0),
      Dec(1, 0 - 1), Dec(0 - 2, 0 - 1), Infinity(1), Infinity(0 - 1) }

\* ArithmeticOperations.addition, .subtraction, .multiplication or
\* .division called on two operands
ApplyOperation ==
    /\ \E op \in OperationNames, num1 \in Operands, num2 \in Operands :
          LET r == Apply(op, num1, num2)
          IN  last' = DidOut("apply", 0, IF r.ok THEN "ok" ELSE r.err,
                             <<create_calculation(num1, num2, op)>>, <<r>>)
    /\ UNCHANGED <<history, file, calls>>
    /\ UNCHANGED view
    /\ UNCHANGED regVars

\* compute() called on the entry at position k of the history
ComputeEntry ==
    /\ \E k \in 1..Len(history) :
          LET r == compute(history[k])
          IN  last' = DidOut("compute", k, IF r.ok THEN "ok" ELSE r.err,
                             <<history[k]>>, <<r>>)
    /\ UNCHANGED <<history, file, calls>>
    /\ UNCHANGED view
    /\ UNCHANGED regVars

DeleteCalculationByIndex ==
    /\ \E index \in Indices :
          IF InRange(history, index)
          THEN /\ history' = DelAt(history, index)
               /\ file' = save_history_to_csv(history', file)
               /\ last' = Did("delete", index, "ok")
          ELSE /\ last' = Did("delete", index, "IndexError")
               /\ UNCHANGED <<history, file>>
    /\ UNCHANGED calls
    /\ UNCHANGED view
    /\ UNCHANGED regVars

SaveHistoryToCsv ==
    /\ file' = save_history_to_csv(history, file)
    /\ last' = Did("save", 0, IF history = <<>> THEN "nothing to save" ELSE "saved")
    /\ UNCHANGED <<history, calls>>
    /\ UNCHANGED view
    /\ UNCHANGED regVars

LoadHistoryFromCsv ==
    /\ LET r == load_history_from_csv(history, file)
       IN  /\ history' = r.history
           /\ last' = Did("load", 0, r.res)
           /\ view' = IF r.res = "loaded" THEN Rebound(view, history) ELSE view
    /\ UNCHANGED <<file, calls>>
    /\ UNCHANGED regVars

CalculatorCall ==
    /\ Len(calls) < MaxCalls
    /\ Len(history) < MaxHist
    /\ \E method \in FacadeMethods, pair \in OperandPairs :
          LET r == calculate_and_record(history, pair[1], pair[2],
                                        FacadeOperation(method))
          IN  /\ history' = r.history
              /\ last' = DidWith("calc", 0,
                                 IF r.result.ok THEN "ok" ELSE r.result.err,
                                 <<create_calculation(pair[1], pair[2],
                                                      FacadeOperation(method))>>)
              /\ calls' = Append(calls, [method |-> method,
                                         a |-> pair[1], b |-> pair[2]])
    /\ file' = file_after_add(history', file)
    /\ UNCHANGED view
    /\ UNCHANGED regVars

\* Files the program may find at start: none, a zero-byte file, one that
\* cannot be read, and CSV files written by an earlier run or by hand.
InitFiles ==
    { Absent, EmptyFile, Unreadable,
      CsvFile(<<>>),
      CsvFile(<<Row("addition", NumCell(Dec(1, 0)), NumCell(Dec(2, 0)))>>),
      CsvFile(<<Row("modulo", NumCell(Dec(7, 0)), TextCell),
                Row("division", NumCell(Dec(25, -1)), NumCell(Dec(4, 0)))>>),
      CsvFile(<<Row("addition", TextCell, NumCell(Dec(2, 0)))>>),
      CsvFile(<<Row("addition", NumCell(Dec(1, 0)), NumCell(Dec(2, 0))),
                Row("division", TextCell, NumCell(Dec(4, 0)))>>),
      CsvFile(<<Row("power", NumCell(Dec(2, 0)), NumCell(Dec(3, 0))),
                Row("subtraction", NumCell(Dec(5, 0)), NumCell(Dec(3, 0)))>>) }

AddInitFiles ==
    { Absent,
      CsvFile(<<Row("addition", NumCell(Dec(1, 0)), NumCell(Dec(2, 0)))>>) }

----------------------------------------------------------------------------
(* Command and CommandHandler.  A command object has a name, a description *)
(* and the ways its execute can end: it returns, it raises an Exception,   *)
(* or the user interrupts it (KeyboardInterrupt, not an Exception).        *)

AddCmd     == 1    \* AddCommand
MockCmd    == 2    \* a second command registered under the name "add"
HistoryCmd == 3    \* HistoryCommand
MenuCmd    == 4    \* DynamicMenuCommand
PluginMenuCmd == 5 \* a command of a plugin whose name is "show_menu"

CommandObjs == {AddCmd, MockCmd, HistoryCmd, MenuCmd, PluginMenuCmd}

CmdName(o) ==
    CASE o = AddCmd     -> "add"
      [] o = MockCmd    -> "add"
      [] o = HistoryCmd -> "history"
      [] o = MenuCmd    -> "show_menu"
      [] o = PluginMenuCmd -> "show_menu"

CmdDescription(o) ==
    CASE o = AddCmd     -> "Add two numbers together."
      [] o = MockCmd    -> "Test Command"
      [] o = HistoryCmd -> "Manage calculation history (retrieve, clear, save, load, delete)."
      [] o = MenuCmd    -> "Show the dynamic menu of all commands."
      [] o = PluginMenuCmd -> "Menu of a plugin"

CmdOutcomes(o) ==
    CASE o = AddCmd     -> {"returns", "interrupt"}
      [] o = MockCmd    -> {"raises"}
      [] o = HistoryCmd -> {"returns", "raises"}
      [] o = MenuCmd    -> {"returns"}
      [] o = PluginMenuCmd -> {"returns"}

Names    == {"add", "history", "show_menu", "nonexistent"}
ArgLists == {<<>>, <<"1", "2">>}

\* A lookup that falls back to the first registered command.
LookupWithDefault(cmds, name) ==
    IF \E k \in 1..Len(cmds) : cmds[k].key = name
    THEN cmds[CHOOSE k \in 1..Len(cmds) : cmds[k].key = name].obj
    ELSE IF cmds # <<>> THEN cmds[1].obj ELSE 0

\* self.commands.get(name): the object under the key, 0 for None
Lookup(cmds, name) ==
    IF \E k \in 1..Len(cmds) : cmds[k].key = name
    THEN cmds[CHOOSE k \in 1..Len(cmds) : cmds[k].key = name].obj
    ELSE 0

\* A registration that keeps the command already present under the name.
register_keep_first(cmds, command) ==
    IF \E k \in 1..Len(cmds) : cmds[k].key = CmdName(command)
    THEN cmds
    ELSE Append(cmds, [key |-> CmdName(command), obj |-> command])

\* A registration that removes a present key and appends the new entry.
register_move_to_end(cmds, command) ==
    Append(SelectSeq(cmds, LAMBDA x : x.key # CmdName(command)),
           [key |-> CmdName(command), obj |-> command])

\* self.commands[command.name] = command: a present key keeps its place
register_command(cmds, command) ==
    IF \E k \in 1..Len(cmds) : cmds[k].key = CmdName(command)
    THEN [k \in 1..Len(cmds) |->
             IF cmds[k].key = CmdName(command)
             THEN [key |-> CmdName(command), obj |-> command]
             ELSE cmds[k]]
    ELSE Append(cmds, [key |-> CmdName(command), obj |-> command])

get_commands(cmds) ==
    [k \in 1..Len(cmds) |-> <<CmdName(cmds[k].obj), CmdDescription(cmds[k].obj)>>]

\* A dispatch without the try/except: the Exception reaches the caller.
execute_result_uncaught(outcome) ==
    CASE outcome = "returns"   -> "returned"
      [] outcome = "raises"    -> "Exception"
      [] outcome = "interrupt" -> "KeyboardInterrupt"

\* How execute_command ends for each way command.execute ends: an Exception
\* is caught and logged, anything else passes through.
execute_result(outcome) ==
    CASE outcome = "returns"   -> "returned"
      [] outcome = "raises"    -> "returned"
      [] outcome = "interrupt" -> "KeyboardInterrupt"

\* A call that leaves the arguments out.
execute_call_without_args(command, args) ==
    <<[obj |-> command, args |-> <<>>]>>

\* command.execute(*args): the calls of execute methods made by a dispatch
execute_call(command, args) ==
    <<[obj |-> command, args |-> args]>>

Dispatched(op, name, args, obj, outcome, res, invoked, listing) ==
    [op |-> op, name |-> name, args |-> args, obj |-> obj, outcome |-> outcome,
     res |-> res, invoked |-> invoked, listing |-> listing]

RegisterCommand ==
    /\ Len(registrations) < MaxRegs
    /\ \E command \in CommandObjs :
          /\ commands' = register_command(commands, command)
          /\ registrations' = Append(registrations, command)
          /\ disp' = Dispatched("register", CmdName(command), <<>>, command,
                                "", "ok", <<>>, <<>>)
    /\ UNCHANGED <<raised, repl, sub>>
    /\ UNCHANGED histVars

GetCommands ==
    /\ disp' = Dispatched("get_commands", "", <<>>, 0, "", "ok", <<>>,
                          get_commands(commands))
    /\ UNCHANGED <<commands, registrations, raised, repl, sub>>
    /\ UNCHANGED histVars

ExecuteCommand ==
    /\ \E name \in Names, args \in ArgLists :
          LET command == Lookup(commands, name)
          IN  IF command = 0
              THEN /\ disp' = Dispatched("execute", name, args, 0, "",
                                         "KeyError", <<>>, <<>>)
                   /\ UNCHANGED raised
              ELSE \E outcome \in CmdOutcomes(command) :
                      /\ disp' = Dispatched("execute", name, args, command, outcome,
                                            execute_result(outcome),
                                            execute_call(command, args), <<>>)
                      /\ raised' = (raised \/ outcome = "raises")
    /\ UNCHANGED <<commands, registrations, repl, sub>>
    /\ UNCHANGED histVars

----------------------------------------------------------------------------
(* App.start.  An input line is the sequence of its pieces: maximal runs   *)
(* of whitespace (" ") and the words between them; '' is <<>>.             *)

Whitespace == {" "}

\* str.lower() of a word
LowerWord(w) ==
    CASE w \in {"exit", "EXIT", "Exit"} -> "exit"
      [] w \in {"add", "ADD"}           -> "add"
      [] OTHER                          -> w

\* cmd_input.lower()
lower(cmd_input) == [k \in 1..Len(cmd_input) |-> LowerWord(cmd_input[k])]

\* cmd_input.split(): the words, without the whitespace around them
split(cmd_input) == SelectSeq(cmd_input, LAMBDA piece : piece \notin Whitespace)

Lines ==
    { <<>>, <<" ">>,
      <<"exit">>, <<"EXIT">>, <<"Exit">>, <<" ", "exit">>, <<"exit", " ">>,
      <<"add", " ", "1", " ", "2">>, <<"ADD">>, <<" ", "add">>,
      <<"history">>, <<"show_menu">>, <<"bogus", " ", "1">> }

\* The plugin packages in the order pkgutil.iter_modules lists them.
Plugins == <<AddCmd, HistoryCmd, PluginMenuCmd>>

\* The plugins whose import succeeds, in that order.
FoundPlugins == {SelectSeq(Plugins, LAMBDA c : c \in S) : S \in SUBSET CommandObjs}

RECURSIVE load_plugins(_, _)
load_plugins(cmds, found) ==
    IF found = <<>> THEN cmds
    ELSE load_plugins(register_command(cmds, Head(found)), Tail(found))

Logged(message) == [ev |-> "log", name |-> message, args |-> <<>>, obj |-> 0]

\* What pkgutil.iter_modules yields for one entry of the plugins directory:
\* the command its module defines, whether it is a package, and how its
\* import and registration end ("ok", "ImportError", or another Exception).
PluginOutcomes == {"ok", "ImportError", "Exception"}

PluginEntry(obj, is_pkg, outcome) ==
    [obj |-> obj, is_pkg |-> is_pkg, outcome |-> outcome]

Discovered ==
    {<<>>} \cup
    { <<PluginEntry(AddCmd, TRUE, o1), PluginEntry(MockCmd, FALSE, "ok"),
        PluginEntry(HistoryCmd, TRUE, o2)>> : o1 \in PluginOutcomes,
                                              o2 \in PluginOutcomes }

Loading(cmds) == [commands |-> cmds, registered |-> <<>>, log |-> <<>>, raises |-> ""]

\* An iteration without `except Exception`: only ImportError is handled.
load_plugin_import_error_only(acc, plugin) ==
    IF acc.raises # "" \/ ~plugin.is_pkg THEN acc
    ELSE CASE plugin.outcome = "ok" ->
                [acc EXCEPT !.commands = register_command(@, plugin.obj),
                            !.registered = Append(@, plugin.obj)]
           [] plugin.outcome = "ImportError" ->
                [acc EXCEPT !.log = Append(@, Logged("Error importing plugin"))]
           [] plugin.outcome = "Exception" ->
                [acc EXCEPT !.raises = "Exception"]

\* One iteration of the loop of load_plugins: a module that is no package is
\* passed over; a package is imported and its command registered, and an
\* exception of either is logged.
load_plugin(acc, plugin) ==
    IF acc.raises # "" \/ ~plugin.is_pkg THEN acc
    ELSE CASE plugin.outcome = "ok" ->
                [acc EXCEPT !.commands = register_command(@, plugin.obj),
                            !.registered = Append(@, plugin.obj)]
           [] plugin.outcome = "ImportError" ->
                [acc EXCEPT !.log = Append(@, Logged("Error importing plugin"))]
           [] plugin.outcome = "Exception" ->
                [acc EXCEPT !.log = Append(@, Logged("Error loading plugin"))]

RECURSIVE load_each_plugin(_, _)
load_each_plugin(acc, discovered) ==
    IF discovered = <<>> THEN acc
    ELSE load_each_plugin(load_plugin(acc, Head(discovered)), Tail(discovered))

\* App.load_plugins: without the plugins directory a warning and nothing else
load_plugins_in(cmds, exists, discovered) ==
    IF ~exists
    THEN [Loading(cmds) EXCEPT !.log = <<Logged("Plugins directory not found.")>>]
    ELSE load_each_plugin(Loading(cmds), discovered)

\* App.load_plugins is called
LoadPlugins ==
    /\ Len(registrations) < MaxRegs
    /\ \E exists \in BOOLEAN, discovered \in Discovered :
          LET r == load_plugins_in(commands, exists, discovered)
          IN  /\ commands' = r.commands
              /\ registrations' = registrations \o r.registered
              /\ disp' = Dispatched("load_plugins",
                                    IF exists THEN "app/plugins" ELSE "",
                                    discovered, 0, "",
                                    IF r.raises = "" THEN "returned" ELSE r.raises,
                                    <<>>, r.log)
    /\ UNCHANGED <<raised, repl, sub>>
    /\ UNCHANGED histVars

\* A call of execute_command and the command object it found (0: none).
Called(cmds, name, args) ==
    [ev |-> "execute", name |-> name, args |-> args, obj |-> Lookup(cmds, name)]

\* The ways the command registered under a name can end.
OutcomesOf(cmds, name) ==
    IF Lookup(cmds, name) = 0 THEN {"none"} ELSE CmdOutcomes(Lookup(cmds, name))

\* execute_command: KeyError for a name that is not registered, else as the
\* command ends.
execute_command(cmds, name, outcome) ==
    IF Lookup(cmds, name) = 0 THEN "KeyError" ELSE execute_result(outcome)

Ending(r) == IF r = "returned" THEN "continue" ELSE r

\* A handler that logs the unknown command and lets the KeyError go on.
on_key_error_reraise(cmds, cmd_input, menu_outcome) ==
    [events |-> <<Logged("Unknown command")>>, end |-> "KeyError"]

\* except KeyError: log, then show the menu.
on_key_error(cmds, cmd_input, menu_outcome) ==
    [events |-> <<Logged("Unknown command"), Called(cmds, "show_menu", <<>>)>>,
     end    |-> Ending(execute_command(cmds, "show_menu", menu_outcome))]

\* One pass through the body of `while True` after input() returned: what
\* is logged or called, and "continue" or the exception that leaves the loop.
loop_body(cmds, cmd_input, outcome, menu_outcome) ==
    IF lower(cmd_input) = <<"exit">>
    THEN [events |-> <<Logged("Application exit.")>>, end |-> "SystemExit"]
    ELSE IF cmd_input = <<>>
    THEN [events |-> <<Called(cmds, "show_menu", <<>>)>>,
          end    |-> Ending(execute_command(cmds, "show_menu", menu_outcome))]
    ELSE LET tokens == split(cmd_input)
         IN  IF tokens = <<>>
             THEN [events |-> <<>>, end |-> "ValueError"]
             ELSE LET r == execute_command(cmds, Head(tokens), outcome)
                      h == on_key_error(cmds, cmd_input, menu_outcome)
                  IN  IF r = "KeyError"
                      THEN [events |-> <<Called(cmds, Head(tokens), Tail(tokens))>>
                                         \o h.events,
                            end    |-> h.end]
                      ELSE [events |-> <<Called(cmds, Head(tokens), Tail(tokens))>>,
                            end    |-> Ending(r)]

\* A start() without the except KeyboardInterrupt clause.
leave_without_handler(end) ==
    [events  |-> <<Logged("Application shutdown.")>>,
     status  |-> IF end = "SystemExit" THEN 0 ELSE 1,
     escaped |-> IF end = "SystemExit" THEN "" ELSE end]

\* How start() is left by an exception out of the loop: sys.exit(0) passes
\* through, KeyboardInterrupt is turned into sys.exit(0), any other
\* exception escapes; the finally clause logs the shutdown in each case.
leave(end) ==
    CASE end = "SystemExit" ->
           [events  |-> <<Logged("Application shutdown.")>>,
            status  |-> 0, escaped |-> ""]
      [] end = "KeyboardInterrupt" ->
           [events  |-> <<Logged("Application interrupted and exiting gracefully."),
                          Logged("Application shutdown.")>>,
            status  |-> 0, escaped |-> ""]
      [] OTHER ->
           [events  |-> <<Logged("Application shutdown.")>>,
            status  |-> 1, escaped |-> end]

\* What the user types at the index prompt of the history menu: a whole
\* number, or text that int() rejects; NotAsked when the prompt is not reached.
IntInput(k) == [kind |-> "int", v |-> k]
TextInput   == [kind |-> "text", v |-> 0]
NotAsked    == [kind |-> "none", v |-> 0]

NoSub ==
    [pc |-> "main", name |-> "", n |-> 0, line |-> <<>>, typed |-> NotAsked,
     out |-> <<>>, computed |-> 0, end |-> ""]

NotStarted ==
    [pc |-> "init", n |-> 0, line |-> <<>>, log |-> <<>>, end |-> "",
     status |-> 0 - 1, escaped |-> ""]

\* repl after an exception has left the loop
Left(r, events, end) ==
    [r EXCEPT !.pc = "done", !.end = end,
              !.log = r.log \o events \o leave(end).events,
              !.status = leave(end).status,
              !.escaped = leave(end).escaped]

\* A start that registers the menu command before the plugins are loaded.
start_menu_first(cmds, found) ==
    load_plugins(register_command(cmds, MenuCmd), found)

\* self.load_plugins(), then register_command(DynamicMenuCommand(...))
start_registrations(cmds, found) ==
    register_command(load_plugins(cmds, found), MenuCmd)

\* load_plugins, the registration of the menu command, the start message
Start ==
    /\ repl.pc = "init"
    /\ \E found \in FoundPlugins :
          /\ commands' = start_registrations(commands, found)
          /\ registrations' = registrations \o found \o <<MenuCmd>>
    /\ repl' = [repl EXCEPT !.pc = "prompt",
                            !.log = <<Logged("Application started.")>>]
    /\ UNCHANGED <<raised, disp, sub>>
    /\ UNCHANGED histVars

\* input() returns a line and the body of the loop runs on it
ReadLine ==
    /\ repl.pc = "prompt"
    /\ repl.n < MaxLines
    /\ \E cmd_input \in Lines :
          LET name == IF split(cmd_input) = <<>> THEN "show_menu"
                      ELSE Head(split(cmd_input))
          IN  \E outcome \in OutcomesOf(commands, name),
                 menu_outcome \in OutcomesOf(commands, "show_menu") :
                 LET b == loop_body(commands, cmd_input, outcome, menu_outcome)
                     r == [repl EXCEPT !.n = repl.n + 1, !.line = cmd_input]
                 IN  repl' = IF b.end = "continue"
                             THEN [r EXCEPT !.log = r.log \o b.events]
                             ELSE Left(r, b.events, b.end)
    /\ UNCHANGED <<commands, registrations, raised, disp, sub>>
    /\ UNCHANGED histVars

\* Ctrl-C while input() waits
Interrupt ==
    /\ repl.pc = "prompt"
    /\ repl' = Left(repl, <<>>, "KeyboardInterrupt")
    /\ UNCHANGED <<commands, registrations, raised, disp, sub>>
    /\ UNCHANGED histVars

\* the input ends: input() raises EOFError
EndOfInput ==
    /\ repl.pc = "prompt"
    /\ repl' = Left(repl, <<>>, "EOFError")
    /\ UNCHANGED <<commands, registrations, raised, disp, sub>>
    /\ UNCHANGED histVars

----------------------------------------------------------------------------
(* calc_utils and the sub-prompt of the arithmetic commands                *)

\* The strings a user types as operands, and the numeral each one is.
OperandStrings == {"5", "0", "abc", "Infinity"}

Numeral(num_str) ==
    CASE num_str = "5"        -> NumCell(Dec(5, 0))
      [] num_str = "0"        -> NumCell(Dec(0, 0))
      [] num_str = "Infinity" -> NumCell(Infinity(1))
      [] OTHER                -> TextCell

\* Decimal(num_str) raises InvalidOperation for a string that is no numeral.
DecimalRaises(num_str) == Numeral(num_str).kind = "text"

DecimalOf(num_str) == DecimalFromStr(Numeral(num_str))

\* What perform_operation returns (a message) or prints.
\* A line that is printed or returned: its fixed text, the value it shows,
\* and the position it starts with in a listing (0: none).
Message(kind, val) == [kind |-> kind, val |-> val, idx |-> 0]

\* The keys of operation_mapping in perform_operation, and a name outside.
UtilNames == FacadeMethods \cup {"modulo"}

\* The call of the Calculator method without the except clauses around it.
perform_known_uncaught(h, num1, num2, operation_name) ==
    LET r == calculate_and_record(h, num1, num2, FacadeOperation(operation_name))
    IN  [history  |-> r.history,
         msg      |-> Message(IF r.result.ok THEN "The result" ELSE "", r.result.val),
         computed |-> 1,
         raises   |-> r.result.err]

\* The call of the Calculator method found in operation_mapping and the
\* three except clauses: every exception becomes a message.
perform_known(h, num1, num2, operation_name) ==
    LET r == calculate_and_record(h, num1, num2, FacadeOperation(operation_name))
        kind == CASE r.result.ok -> "The result"
                  [] r.result.err = "ZeroDivisionError" ->
                       "An error occurred: Cannot divide by zero"
                  [] r.result.err = "ValueError" -> "str(e)"
                  [] OTHER -> "An unexpected error occurred"
    IN  [history  |-> r.history,
         msg      |-> Message(kind, r.result.val),
         computed |-> 1,
         raises   |-> ""]

\* A lookup that falls back to Calculator.add for a name it does not know.
perform_operation_fallback(h, num1, num2, operation_name) ==
    perform_known(h, num1, num2,
                  IF operation_name \in FacadeMethods THEN operation_name ELSE "add")

\* perform_operation: the history after the call, the message returned,
\* the number of calls made to the Calculator, the exception propagated.
perform_operation(h, num1, num2, operation_name) ==
    IF operation_name \notin FacadeMethods
    THEN [history |-> h, msg |-> Message("Unknown operation", Dec(0, 0)),
          computed |-> 0, raises |-> ""]
    ELSE perform_known(h, num1, num2, operation_name)

\* A validation that looks at the first operand only.
calculate_and_print_first_only(h, num1_str, num2_str, operation_name) ==
    IF DecimalRaises(num1_str)
    THEN [history |-> h, msg |-> Message("Invalid number input", Dec(0, 0)),
          computed |-> 0, raises |-> ""]
    ELSE perform_operation(h, DecimalOf(num1_str), DecimalOf(num2_str),
                           operation_name)

\* calculate_and_print: both conversions are inside the one try block.
calculate_and_print(h, num1_str, num2_str, operation_name) ==
    IF DecimalRaises(num1_str) \/ DecimalRaises(num2_str)
    THEN [history |-> h, msg |-> Message("Invalid number input", Dec(0, 0)),
          computed |-> 0, raises |-> ""]
    ELSE perform_operation(h, DecimalOf(num1_str), DecimalOf(num2_str),
                           operation_name)

Asked(a, b, operation_name) == [a |-> a, b |-> b, name |-> operation_name]

\* The facade calls made so far, after a call of calc_utils.
CallsAfter(r, a, b, operation_name) ==
    IF r.computed = 0 THEN calls
    ELSE Append(calls, [method |-> operation_name, a |-> a, b |-> b])

UtilDecimals == {DecimalOf(x) : x \in {y \in OperandStrings : ~DecimalRaises(y)}}

PerformOperation ==
    /\ \E num1 \in UtilDecimals, num2 \in UtilDecimals, operation_name \in UtilNames :
          LET r == perform_operation(history, num1, num2, operation_name)
          IN  /\ Len(r.history) <= MaxUtil
              /\ history' = r.history
              /\ last' = DidOut("perform", r.computed,
                                IF r.raises = "" THEN "returned" ELSE r.raises,
                                <<Asked(num1, num2, operation_name)>>, <<r.msg>>)
              /\ calls' = CallsAfter(r, num1, num2, operation_name)
    /\ file' = file_after_add(history', file)
    /\ UNCHANGED view
    /\ UNCHANGED regVars

CalculateAndPrint ==
    /\ \E num1_str \in OperandStrings, num2_str \in OperandStrings,
          operation_name \in UtilNames :
          LET r == calculate_and_print(history, num1_str, num2_str, operation_name)
          IN  /\ Len(r.history) <= MaxUtil
              /\ history' = r.history
              /\ last' = DidOut("calculate_and_print", r.computed,
                                IF r.raises = "" THEN "returned" ELSE r.raises,
                                <<Asked(num1_str, num2_str, operation_name)>>,
                                <<r.msg>>)
              /\ calls' = CallsAfter(r, DecimalOf(num1_str), DecimalOf(num2_str),
                                     operation_name)
    /\ file' = file_after_add(history', file)
    /\ UNCHANGED view
    /\ UNCHANGED regVars

----------------------------------------------------------------------------
(* execute_operation: the sub-prompt of add, subtract, multiply, divide    *)

OperationLines ==
    { <<>>, <<" ">>, <<"exit">>, <<"EXIT">>, <<" ", "exit">>,
      <<"5">>, <<"5", " ", "0">>, <<" ", "5", " ", "abc">>,
      <<"5", " ", "0", " ", "5">>, <<"Infinity", " ", "0">> }

\* A check that rejects fewer than two parts only.
parse_input_two_or_more(user_input) ==
    [raises |-> IF Len(split(user_input)) < 2 THEN "ValueError" ELSE "",
     parts  |-> split(user_input)]

\* parse_input: ValueError unless the line has exactly two parts.
parse_input(user_input) ==
    [raises |-> IF Len(split(user_input)) # 2 THEN "ValueError" ELSE "",
     parts  |-> split(user_input)]

\* One pass through the body of `while True` in execute_operation: the
\* history after it, what is printed, the calls of calculate_and_print
\* (as argument triples), and whether the loop goes on.
operation_loop_body(h, user_input, operation_name) ==
    IF lower(user_input) = <<"exit">>
    THEN [history |-> h, out |-> <<>>, passed |-> <<>>, end |-> "break"]
    ELSE LET p == parse_input(user_input)
             r == calculate_and_print(h, p.parts[1], p.parts[2], operation_name)
         IN  IF p.raises # ""
             THEN [history |-> h,
                   out     |-> <<Message("Error: Invalid input format", Dec(0, 0))>>,
                   passed  |-> <<>>, end |-> "continue"]
             ELSE [history |-> r.history,
                   out     |-> <<r.msg, Message("Continue", Dec(0, 0))>>,
                   passed  |-> <<Asked(p.parts[1], p.parts[2], operation_name)>>,
                   end     |-> "continue"]

\* AddCommand.execute and its siblings call execute_operation(prompt, name).
EnterOperation ==
    /\ sub.pc = "main"
    /\ \E operation_name \in FacadeMethods :
          sub' = [NoSub EXCEPT !.pc = "arith", !.name = operation_name]
    /\ UNCHANGED <<commands, registrations, raised, disp, repl>>
    /\ UNCHANGED histVars

\* input() returns a line at the sub-prompt and the body of the loop runs
OperationLine ==
    /\ sub.pc = "arith"
    /\ sub.n < MaxLines
    /\ \E user_input \in OperationLines :
          LET b == operation_loop_body(history, user_input, sub.name)
          IN  /\ Len(b.history) <= MaxUtil
              /\ history' = b.history
              /\ sub' = [sub EXCEPT !.pc = IF b.end = "break" THEN "main" ELSE "arith",
                                    !.n = sub.n + 1, !.line = user_input,
                                    !.out = b.out, !.computed = Len(b.passed),
                                    !.end = IF b.end = "break" THEN "exit" ELSE ""]
              /\ last' = IF b.passed = <<>> THEN last
                         ELSE DidOut("calculate_and_print",
                                     Len(b.history) - Len(history), "returned",
                                     b.passed, <<b.out[1]>>)
              /\ calls' = IF Len(b.history) = Len(history) THEN calls
                          ELSE Append(calls, [method |-> sub.name,
                                              a |-> DecimalOf(b.passed[1].a),
                                              b |-> DecimalOf(b.passed[1].b)])
    /\ file' = file_after_add(history', file)
    /\ UNCHANGED view
    /\ UNCHANGED <<commands, registrations, raised, disp, repl>>

\* input() of execute_operation raises EOFError or KeyboardInterrupt: it
\* stands before the try, so execute_operation is left.
OperationInterrupt ==
    /\ sub.pc = "arith"
    /\ \E exc \in {"EOFError", "KeyboardInterrupt"} :
          sub' = [sub EXCEPT !.pc = "main", !.end = exc]
    /\ UNCHANGED <<commands, registrations, raised, disp, repl>>
    /\ UNCHANGED histVars

----------------------------------------------------------------------------
(* HistoryCommand: the history sub-menu                                    *)

Choices == {"1", "2", "3", "4", "5", "6", "7", "", " 1", "exit", "Exit"}

IndexInputs == {IntInput(k) : k \in (0 - 1)..(MaxHist + 1)} \cup {TextInput}

Printed(kind) == Message(kind, Dec(0, 0))

\* print of one entry: its result, or 'undefined' for a division by zero;
\* any other exception of compute() is in raises.
Listed(idx, kind, val) == [Message(kind, val) EXCEPT !.idx = idx]

ShowEntry(idx, calculation) ==
    LET r == compute(calculation)
    IN  [out    |-> IF r.ok THEN <<Listed(idx, "results in", r.val)>>
                    ELSE IF r.err = "ZeroDivisionError"
                    THEN <<Listed(idx, "is undefined", Dec(0, 0))>>
                    ELSE <<>>,
         raises |-> IF r.ok \/ r.err = "ZeroDivisionError" THEN "" ELSE r.err]

\* _display_all_calculations: only ZeroDivisionError is caught in the loop,
\* so the first entry whose compute() fails otherwise ends the listing.
RECURSIVE display_from(_, _)
display_from(h, k) ==
    IF k > Len(h) THEN [out |-> <<>>, raises |-> ""]
    ELSE LET e == ShowEntry(k, h[k])
             t == display_from(h, k + 1)
         IN  IF e.raises # "" THEN [out |-> <<>>, raises |-> e.raises]
             ELSE [out |-> e.out \o t.out, raises |-> t.raises]

display_all_calculations(h) ==
    IF get_history(h) = <<>>
    THEN [out |-> <<Printed("No calculations in history.")>>, raises |-> ""]
    ELSE display_from(h, 1)

\* print_result: every exception of compute() is caught.
display_most_recent_calculation(h) ==
    IF get_latest_history(h) = <<>> THEN <<Printed("No calculations in history.")>>
    ELSE LET r == compute(get_latest_history(h)[1])
         IN  IF r.ok THEN <<Message("results in", r.val)>>
             ELSE IF r.err = "ZeroDivisionError" THEN <<Printed("is undefined.")>>
             ELSE <<Printed("Error occured")>>

Chosen(h, f, out, raises, typed, loaded) ==
    [history |-> h, file |-> f, out |-> out, raises |-> raises, typed |-> typed,
     loaded |-> loaded]

\* The number typed, passed on as it is.
index_as_typed(typed) == typed.v

\* int(input(...)) - 1
index_to_delete(typed) == typed.v - 1

delete_calculation_from_history(h, f, typed) ==
    IF get_history(h) = <<>>
    THEN Chosen(h, f, <<Printed("No history available to delete.")>>, "",
                NotAsked, FALSE)
    ELSE LET d == display_all_calculations(h)
             i == index_to_delete(typed)
         IN  IF d.raises # "" THEN Chosen(h, f, d.out, d.raises, NotAsked, FALSE)
             ELSE IF typed.kind # "int"
             THEN Chosen(h, f, d.out \o <<Printed("Invalid index.")>>, "",
                         typed, FALSE)
             ELSE IF InRange(h, i)
             THEN Chosen(DelAt(h, i), save_history_to_csv(DelAt(h, i), f),
                         d.out \o <<Printed("has been deleted.")>>, "", typed, FALSE)
             ELSE Chosen(h, f,
                         d.out \o <<Printed("No calculation found at the given index.")>>,
                         "", typed, FALSE)

process_choice(h, f, choice, typed) ==
    CASE choice = "1" ->
           Chosen(h, f, display_most_recent_calculation(h), "", NotAsked, FALSE)
      [] choice = "2" ->
           Chosen(h, f, display_all_calculations(h).out,
                  display_all_calculations(h).raises, NotAsked, FALSE)
      [] choice = "3" ->
           IF get_history(h) # <<>>
           THEN Chosen(clear_history(h), f, <<Printed("Calculation history cleared.")>>,
                       "", NotAsked, FALSE)
           ELSE Chosen(h, f, <<Printed("History is already empty, no history to clear.")>>,
                       "", NotAsked, FALSE)
      [] choice = "4" ->
           Chosen(h, save_history_to_csv(h, f),
                  IF h = <<>> THEN <<Printed("No calculations in history to save.")>>
                  ELSE <<>>,
                  "", NotAsked, FALSE)
      [] choice = "5" ->
           Chosen(load_history_from_csv(h, f).history, f, <<>>, "", NotAsked,
                  load_history_from_csv(h, f).res = "loaded")
      [] choice = "6" -> delete_calculation_from_history(h, f, typed)
      [] OTHER ->
           Chosen(h, f, <<Printed("Invalid choice.")>>, "", NotAsked, FALSE)

\* HistoryCommand.execute is called
EnterHistory ==
    /\ sub.pc = "main"
    /\ sub' = [NoSub EXCEPT !.pc = "history", !.name = "history"]
    /\ UNCHANGED <<commands, registrations, raised, disp, repl>>
    /\ UNCHANGED histVars

\* One pass through the loop of HistoryCommand.execute: the choice is read
\* and processed, the index prompt of choice 6 included.  An exception
\* that leaves process_choice leaves execute.
HistoryChoice ==
    /\ sub.pc = "history"
    /\ sub.n < MaxLines
    /\ \E choice \in Choices, typed \in IndexInputs :
          LET r == process_choice(history, file, choice, typed)
              s == [sub EXCEPT !.n = sub.n + 1, !.line = <<choice>>]
          IN  IF LowerWord(choice) = "exit"
              THEN /\ sub' = [s EXCEPT !.pc = "main", !.end = "exit", !.out = <<>>,
                                       !.typed = NotAsked]
                   /\ UNCHANGED <<history, file, last, calls, view>>
              ELSE /\ history' = r.history
                   /\ file' = r.file
                   /\ sub' = [s EXCEPT !.pc = IF r.raises = "" THEN "history" ELSE "main",
                                       !.end = r.raises, !.out = r.out,
                                       !.typed = r.typed]
                   /\ last' = Did("menu", Len(history),
                                  IF r.raises = "" THEN "ok" ELSE r.raises)
                   /\ calls' = IF choice = "3" /\ history # <<>> THEN <<>> ELSE calls
                   /\ view' = IF r.loaded THEN Rebound(view, history) ELSE view
    /\ UNCHANGED <<commands, registrations, raised, disp, repl>>

\* input() of HistoryCommand.execute raises EOFError or KeyboardInterrupt,
\* which nothing in execute catches.
HistoryInterrupt ==
    /\ sub.pc = "history"
    /\ \E exc \in {"EOFError", "KeyboardInterrupt"} :
          sub' = [sub EXCEPT !.pc = "main", !.end = exc]
    /\ UNCHANGED <<commands, registrations, raised, disp, repl>>
    /\ UNCHANGED histVars

\* Histories earlier commands have left: empty, one entry, three entries
\* with a division by zero, and a division by zero followed by Infinity * 0.
MenuHistories ==
    { <<>>,
      <<create_calculation(Dec(5, 0), Dec(3, 0), "addition")>>,
      <<create_calculation(Dec(5, 0), Dec(3, 0), "addition"),
        create_calculation(Dec(1, 0), Dec(0, 0), "division"),
        create_calculation(Dec(1, -1), Dec(2, -1), "subtraction")>>,
      <<create_calculation(Dec(1, 0), Dec(0, 0), "division"),
        create_calculation(Infinity(1), Dec(0, 0), "multiplication")>> }

----------------------------------------------------------------------------
(* Specifications                                                          *)

HistIdle ==
    /\ history = <<>>
    /\ file = Absent
    /\ last = Did("init", 0, "ok")
    /\ calls = <<>>
    /\ view = NoView

RegIdle ==
    /\ commands = <<>>
    /\ registrations = <<>>
    /\ raised = FALSE
    /\ disp = Dispatched("init", "", <<>>, 0, "", "", <<>>, <<>>)
    /\ repl = NotStarted
    /\ sub = NoSub

\* The history and its backing file.
Init ==
    /\ history = <<>>
    /\ file \in InitFiles
    /\ last = Did("init", 0, "ok")
    /\ calls = <<>>
    /\ view = NoView
    /\ RegIdle

Next ==
    \/ AddCalculation
    \/ ClearHistory
    \/ GetHistory
    \/ GetLatestHistory
    \/ DeleteCalculationByIndex
    \/ SaveHistoryToCsv
    \/ LoadHistoryFromCsv

Spec == Init /\ [][Next]_vars

\* The Calculator facade over the history.
InitCalc == HistIdle /\ RegIdle

NextCalc ==
    \/ CalculatorCall
    \/ ClearHistory

SpecCalc == InitCalc /\ [][NextCalc]_vars

\* Additions, direct and through the facade, over files found at start.
InitAdd ==
    /\ history = <<>>
    /\ file \in AddInitFiles
    /\ last = Did("init", 0, "ok")
    /\ calls = <<>>
    /\ view = NoView
    /\ RegIdle

NextAdd ==
    \/ AddCalculation
    \/ CalculatorCall

SpecAdd == InitAdd /\ [][NextAdd]_vars

\* Calculations added to the history and computed, any number of times.
InitCompute == HistIdle /\ RegIdle

NextCompute ==
    \/ AddCalculation
    \/ ComputeEntry

SpecCompute == InitCompute /\ [][NextCompute]_vars

\* Direct calls of the four arithmetic operations.
InitOps == HistIdle /\ RegIdle

NextOps == ApplyOperation

SpecOps == InitOps /\ [][NextOps]_vars

\* Direct calls of calc_utils.
InitUtil == HistIdle /\ RegIdle

NextUtil ==
    \/ PerformOperation
    \/ CalculateAndPrint

SpecUtil == InitUtil /\ [][NextUtil]_vars

\* The sub-prompt of the arithmetic commands.
InitPrompt == HistIdle /\ RegIdle

NextPrompt ==
    \/ EnterOperation
    \/ OperationLine
    \/ OperationInterrupt

SpecPrompt == InitPrompt /\ [][NextPrompt]_vars

\* The history sub-menu over histories and files left by earlier commands.
InitMenu ==
    /\ history \in MenuHistories
    /\ file \in AddInitFiles
    /\ last = Did("init", 0, "ok")
    /\ calls = <<>>
    /\ view = NoView
    /\ RegIdle

NextMenu ==
    \/ EnterHistory
    \/ HistoryChoice
    \/ HistoryInterrupt

SpecMenu == InitMenu /\ [][NextMenu]_vars

\* A caller that keeps what get_history returned and modifies it.
InitView ==
    /\ history = <<>>
    /\ file \in AddInitFiles
    /\ last = Did("init", 0, "ok")
    /\ calls = <<>>
    /\ view = NoView
    /\ RegIdle

NextView ==
    \/ AddCalculation
    \/ KeepHistory
    \/ CallerModifies
    \/ GetHistory
    \/ GetLatestHistory
    \/ LoadHistoryFromCsv

SpecView == InitView /\ [][NextView]_vars

\* The command registry.
InitReg == HistIdle /\ RegIdle

NextReg ==
    \/ RegisterCommand
    \/ GetCommands
    \/ ExecuteCommand

SpecReg == InitReg /\ [][NextReg]_vars

\* App.load_plugins on a handler that may hold commands already.
InitPlugins == HistIdle /\ RegIdle

NextPlugins ==
    \/ RegisterCommand
    \/ LoadPlugins

SpecPlugins == InitPlugins /\ [][NextPlugins]_vars

\* One run of App.start.
InitRepl == HistIdle /\ RegIdle

NextRepl ==
    \/ Start
    \/ ReadLine
    \/ Interrupt
    \/ EndOfInput

SpecRepl == InitRepl /\ [][NextRepl]_vars

----------------------------------------------------------------------------
(* Properties                                                              *)

\* Two calculations with the same operation and numerically equal operands.
SameCalc(x, y) ==
    /\ x.operation = y.operation
    /\ DecEq(x.num1, y.num1)
    /\ DecEq(x.num2, y.num2)

SameHistory(g, h) ==
    /\ Len(g) = Len(h)
    /\ \A k \in 1..Len(g) : SameCalc(g[k], h[k])

\* C1: when the execute of a registered command raises an Exception,
\* execute_command returns normally and the registry is unchanged; every
\* dispatch made after such a failure on a registered name still invokes
\* exactly the command registered under that name.
C1_DispatchIsolatesFailure ==
    [][ /\ (disp'.op = "execute" /\ disp'.outcome = "raises")
              => (disp'.res = "returned" /\ commands' = commands)
        /\ (raised /\ disp'.op = "execute"
                   /\ \E k \in 1..Len(commands) : commands[k].key = disp'.name)
              => \E k \in 1..Len(commands) :
                    /\ commands[k].key = disp'.name
                    /\ disp'.invoked = <<[obj |-> commands[k].obj,
                                          args |-> disp'.args]>>
                    /\ commands' = commands ]_vars

\* A dispatch that ended normally and invoked its handler, made after an
\* earlier dispatch whose command raised.
C1_Witness ==
    /\ raised
    /\ disp.op = "execute"
    /\ disp.outcome = "returns"
    /\ disp.res = "returned"
    /\ Len(disp.invoked) = 1

Scenario ==
    << [method |-> "add",    a |-> Dec(5, 0),  b |-> Dec(3, 0)],
       [method |-> "divide", a |-> Dec(20, 0), b |-> Dec(4, 0)],
       [method |-> "divide", a |-> Dec(1, 0),  b |-> Dec(0, 0)] >>

\* C2 as stated: only successful facade calls are recorded; after add(5,3),
\* divide(20,4), divide(1,0) the history has length 2 and its latest entry
\* is divide(20,4); a call failing with division by zero adds no entry.
C2_OnlySuccessfulRecorded ==
    /\ Len(history) =
          Cardinality({k \in 1..Len(calls) :
                          ~(calls[k].method = "divide" /\ calls[k].b.c = 0)})
    /\ calls = Scenario =>
          /\ Len(history) = 2
          /\ get_latest_history(history) =
                <<[num1 |-> Dec(20, 0), num2 |-> Dec(4, 0), operation |-> "division"]>>

\* C2 amended: every facade call is recorded, whether or not its
\* computation succeeds: the k-th call since the history was empty is the
\* k-th entry; after add(5,3), divide(20,4), divide(1,0) the history has
\* length 3 and its latest entry is divide(1,0).
C2_EveryCallRecorded ==
    /\ Len(history) = Len(calls)
    /\ \A k \in 1..Len(calls) :
          history[k] = [num1 |-> calls[k].a, num2 |-> calls[k].b,
                        operation |-> FacadeOperation(calls[k].method)]
    /\ calls = Scenario =>
          /\ Len(history) = 3
          /\ get_latest_history(history) =
                <<[num1 |-> Dec(1, 0), num2 |-> Dec(0, 0), operation |-> "division"]>>

\* The three calls of the scenario have been made, the last one failing.
C2_Witness ==
    /\ calls = Scenario
    /\ last.op = "calc"
    /\ last.res = "ZeroDivisionError"

\* C3 as stated: after every successful delete_calculation_by_index the
\* backing file holds exactly the post-deletion history: a load performed
\* right after the delete yields the post-deletion history.
C3_DeleteIsDurable ==
    [][ (last'.op = "delete" /\ last'.res = "ok")
           => SameHistory(load_history_from_csv(history', file').history,
                          history') ]_vars

\* C4 as stated: for every history and every prior file, save_history_to_csv();
\* clear_history(); load_history_from_csv() yields a history of the same
\* length with the same operation name and operands at each position.
C4_RoundTrip ==
    LET saved  == save_history_to_csv(history, file)
        loaded == load_history_from_csv(<<>>, saved).history
    IN  SameHistory(loaded, history)

\* C5: load_history_from_csv ends in one of its handled branches, and when
\* the file is absent, is empty (zero bytes) or cannot be read or parsed,
\* the history after the call is the history before it.
C5_FailedLoadKeepsHistory ==
    [][ last'.op = "load"
           => /\ last'.res \in {"loaded", "EmptyDataError", "FileNotFoundError",
                                "Exception"}
              /\ file.kind \in {"absent", "empty", "unreadable"}
                    => (last'.res # "loaded" /\ history' = history)
              /\ (file.kind = "csv" /\ \E k \in 1..Len(file.rows) :
                        /\ file.rows[k].op \in OperationNames
                        /\ "text" \in {file.rows[k].o1.kind, file.rows[k].o2.kind})
                    => (last'.res = "Exception" /\ history' = history) ]_vars

\* A load that failed while the history held entries.
C5_Witness ==
    /\ last.op = "load"
    /\ last.res \in {"EmptyDataError", "FileNotFoundError", "Exception"}
    /\ Len(history) >= 2

\* C6: delete_calculation_by_index(i) on a history of length N succeeds
\* exactly when 0 <= i < N and raises IndexError otherwise; after a success
\* the length is N-1, the entries before i are unchanged and those after i
\* have moved down by one, in order.
C6_DeleteByIndex ==
    [][ last'.op = "delete"
           => LET i == last'.idx
                  N == Len(history)
              IN  /\ (last'.res = "ok") <=> (0 <= i /\ i < N)
                  /\ last'.res \in {"ok", "IndexError"}
                  /\ last'.res = "ok"
                        => /\ Len(history') = N - 1
                           /\ \A k \in 1..i : history'[k] = history[k]
                           /\ \A k \in (i + 1)..(N - 1) : history'[k] = history[k + 1]
       ]_vars

\* The middle entry of a three-entry history with distinct neighbours has
\* been deleted.
C6_Witness ==
    /\ last.op = "delete"
    /\ last.res = "ok"
    /\ last.idx = 1
    /\ Len(history) = 2
    /\ history[1] # history[2]

\* C7: a delete_calculation_by_index with an out-of-range index leaves the
\* history and the backing file as they were.
C7_FailedDeleteChangesNothing ==
    [][ (last'.op = "delete" /\ ~(0 <= last'.idx /\ last'.idx < Len(history)))
           => (history' = history /\ file' = file) ]_vars

\* An out-of-range delete on a non-empty history whose file holds something
\* else than the history, so that a removal or a write would show.
C7_Witness ==
    /\ last.op = "delete"
    /\ last.res = "IndexError"
    /\ last.idx < 0
    /\ history # <<>>
    /\ file # to_csv(history)

\* C8: after any sequence of register_command calls the registry holds one
\* entry per registered name and none for any other name, the entry is the
\* command registered last under the name, and no registration fails.
C8_LastRegisteredWins ==
    /\ \A name \in Names :
          LET regs == {k \in 1..Len(registrations) :
                          CmdName(registrations[k]) = name}
              ents == {k \in 1..Len(commands) : commands[k].key = name}
          IN  IF regs = {} THEN ents = {}
              ELSE /\ Cardinality(ents) = 1
                   /\ \A k \in ents :
                         commands[k].obj =
                            registrations[CHOOSE j \in regs : \A i \in regs : i <= j]
    /\ disp.op = "register" => disp.res = "ok"

\* A name has been registered twice, with two different commands.
C8_Witness ==
    /\ disp.op = "register"
    /\ \E j, k \in 1..Len(registrations) :
          /\ j < k
          /\ registrations[j] # registrations[k]
          /\ CmdName(registrations[j]) = CmdName(registrations[k])
          /\ k = Len(registrations)

\* C9: execute_command on a name that is not registered raises KeyError,
\* invokes no command and leaves the registry unchanged.
C9_UnknownCommand ==
    [][ (disp'.op = "execute"
            /\ \A k \in 1..Len(commands) : commands[k].key # disp'.name)
           => /\ disp'.res = "KeyError"
              /\ disp'.invoked = <<>>
              /\ commands' = commands ]_vars

\* An unknown name has been dispatched on a registry that holds commands.
C9_Witness ==
    /\ disp.op = "execute"
    /\ disp.res = "KeyError"
    /\ disp.name = "nonexistent"
    /\ Len(commands) >= 2

\* The names of a sequence of registrations in order of first registration.
RECURSIVE FirstRegistered(_)
FirstRegistered(regs) ==
    IF regs = <<>> THEN <<>>
    ELSE LET front == FirstRegistered(SubSeq(regs, 1, Len(regs) - 1))
             name  == CmdName(regs[Len(regs)])
         IN  IF \E k \in 1..Len(front) : front[k] = name
             THEN front
             ELSE Append(front, name)

\* C10: get_commands returns one (name, description) pair per registered
\* name, in the order in which the names were first registered, each with
\* the description of the command registered last under the name.
C10_GetCommandsOrder ==
    disp.op = "get_commands" =>
        LET names == FirstRegistered(registrations)
        IN  /\ Len(disp.listing) = Len(names)
            /\ \A k \in 1..Len(names) :
                  LET regs == {j \in 1..Len(registrations) :
                                  CmdName(registrations[j]) = names[k]}
                      lst  == CHOOSE j \in regs : \A i \in regs : i <= j
                  IN  disp.listing[k] =
                         <<names[k], CmdDescription(registrations[lst])>>

\* A listing of two names, the first of them registered again after the
\* second with another description.
C10_Witness ==
    /\ disp.op = "get_commands"
    /\ Len(disp.listing) = 2
    /\ Len(registrations) = 3
    /\ CmdName(registrations[1]) = CmdName(registrations[3])
    /\ CmdDescription(registrations[1]) # CmdDescription(registrations[3])

\* The four operation names load_history_from_csv recognises.
FourNames == {"addition", "subtraction", "multiplication", "division"}

\* The number a numeral denotes, to the precision of a float.
SameNumber(d, cell) ==
    LET m == Min(d.e, cell.e)
    IN  d.c * Pow(10, d.e - m) = cell.c * Pow(10, cell.e - m)

IsPrefix(g, h) ==
    /\ Len(g) <= Len(h)
    /\ \A k \in 1..Len(g) : g[k] = h[k]

\* C11: after a successful load the history is the file's records whose
\* operation name is one of the four, in file order, each with the
\* operation of that name and the operands read from the record; records
\* with another name are left out, and the result does not depend on what
\* was in memory before (replace, not merge).
C11_LoadReplacesWithKnownRecords ==
    [][(last'.op = "load" /\ last'.res = "loaded")
         => LET recs == SelectSeq(file.rows, LAMBDA r : r.op \in FourNames)
            IN  /\ Len(history') = Len(recs)
                /\ \A k \in 1..Len(recs) :
                      /\ history'[k].operation = recs[k].op
                      /\ SameNumber(history'[k].num1, recs[k].o1)
                      /\ SameNumber(history'[k].num2, recs[k].o2)]_vars

\* A successful load has replaced the history by the one known record of a
\* file that also holds a record with an unknown operation name.
C11_Witness ==
    /\ last.op = "load" /\ last.res = "loaded"
    /\ file.kind = "csv" /\ Len(file.rows) = 2
    /\ \E k \in 1..2 : file.rows[k].op \notin FourNames
    /\ Len(history) = 1

\* C12: a load from a file with zero records, the header-only file
\* included, leaves the history as it was.
C12_EmptyFileLoadIsNoOp ==
    [][(last'.op = "load" /\ file.kind \in {"empty", "csv"} /\ Len(file.rows) = 0)
         => history' = history]_vars

\* C13 as stated: only clear_history and delete_calculation_by_index remove
\* or reorder entries; after any other operation the old history is a
\* prefix of the new one.
C13_OnlyClearAndDeleteRemove ==
    [][last'.op \notin {"clear", "delete"} => IsPrefix(history, history')]_vars

\* C13: only clear_history, delete_calculation_by_index and a successful
\* load_history_from_csv remove or reorder entries; after any other
\* operation, a failed load included, the old history is a prefix of the
\* new one.
C13_OnlyClearDeleteLoadRemove ==
    [][(last'.op \notin {"clear", "delete"}
          /\ ~(last'.op = "load" /\ last'.res = "loaded"))
         => IsPrefix(history, history')]_vars

\* A load has failed on a file that cannot be parsed while two entries
\* were in memory, and both are still there.
C13_Witness ==
    /\ last.op = "load" /\ last.res \notin {"loaded", "FileNotFoundError"}
    /\ Len(history) = 2

\* What the last step added to the log of the run.
NewEvents == SubSeq(repl'.log, Len(repl.log) + 1, Len(repl'.log))

LineRead == repl'.n = repl.n + 1

IsExitLine(cmd_input) ==
    /\ Len(cmd_input) = 1
    /\ cmd_input[1] \in {"exit", "EXIT", "Exit"}

Words(cmd_input) == SelectSeq(cmd_input, LAMBDA piece : piece # " ")

\* C14: every line other than 'exit' (in any case) is handled by a dispatch
\* of its first token or by the menu, no exception escapes start(), and the
\* loop goes on to the next prompt unless an interrupt arrives.
C14_EveryLineHandled ==
    [][(LineRead /\ ~IsExitLine(repl'.line))
         => /\ repl'.escaped = ""
            /\ repl'.pc = "prompt" \/ repl'.end = "KeyboardInterrupt"
            /\ \E k \in 1..Len(NewEvents) :
                  /\ NewEvents[k].ev = "execute"
                  /\ \/ NewEvents[k].name = "show_menu"
                     \/ /\ Words(repl'.line) # <<>>
                        /\ NewEvents[k].name = Head(Words(repl'.line))]_vars

\* C15: a line whose first token is not a registered command name makes
\* the loop execute the registered show_menu command and go on to the next
\* prompt; nothing escapes.
C15_UnknownCommandShowsMenu ==
    [][(LineRead /\ ~IsExitLine(repl'.line) /\ Words(repl'.line) # <<>>
          /\ \A k \in 1..Len(commands) :
                commands[k].key # Head(Words(repl'.line)))
         => /\ repl'.pc = "prompt"
            /\ repl'.escaped = ""
            /\ Len(NewEvents) >= 1
            /\ NewEvents[Len(NewEvents)].ev = "execute"
            /\ NewEvents[Len(NewEvents)].name = "show_menu"
            /\ NewEvents[Len(NewEvents)].obj = MenuCmd]_vars

\* The line 'bogus 1' has been read as the second line, the menu has been
\* shown and the loop is at the prompt again.
C15_Witness ==
    /\ repl.pc = "prompt"
    /\ repl.n = 2
    /\ repl.line = <<"bogus", " ", "1">>
    /\ repl.log[Len(repl.log)].name = "show_menu"

\* C16: when start() ends because 'exit' was entered in any case or
\* because of a keyboard interrupt, the exit status is 0 and the shutdown
\* message is the last thing logged, right after the exit or interrupt
\* message.
C16_CleanShutdown ==
    (repl.pc = "done" /\ (IsExitLine(repl.line) \/ repl.end = "KeyboardInterrupt"))
      => /\ repl.status = 0
         /\ repl.escaped = ""
         /\ Len(repl.log) >= 2
         /\ repl.log[Len(repl.log)].name = "Application shutdown."
         /\ repl.log[Len(repl.log) - 1].name =
               IF IsExitLine(repl.line) THEN "Application exit."
               ELSE "Application interrupted and exiting gracefully."
         /\ \A k \in 1..(Len(repl.log) - 1) :
               repl.log[k].name # "Application shutdown."

\* The run has ended on a keyboard interrupt raised while the add command
\* was executing.
C16_Witness ==
    /\ repl.pc = "done"
    /\ repl.end = "KeyboardInterrupt"
    /\ repl.n >= 1
    /\ repl.line = <<"add", " ", "1", " ", "2">>
    /\ repl.log[Len(repl.log) - 2].ev = "execute"

\* C17: add_calculation and the facade operations leave the backing file
\* exactly as it was.
C17_AddLeavesFile ==
    [][last'.op \in {"add", "calc"} => file' = file]_vars

\* A facade call has recorded a second entry and no file exists.
C17_Witness ==
    /\ last.op = "calc"
    /\ Len(history) = 2
    /\ file.kind = "absent"

\* C18: after a save of a non-empty history the file holds one record per
\* entry, in history order, each made of the operation name and the two
\* operands and of nothing else; the history is unchanged.
C18_SaveWritesHistory ==
    [][(last'.op = "save" /\ history # <<>>)
         => /\ file'.kind = "csv"
            /\ Len(file'.rows) = Len(history)
            /\ \A k \in 1..Len(history) :
                  /\ DOMAIN file'.rows[k] = {"op", "o1", "o2"}
                  /\ file'.rows[k].op = history[k].operation
                  /\ file'.rows[k].o1.kind = "num"
                  /\ file'.rows[k].o2.kind = "num"
                  /\ DecEq(DecimalFromStr(file'.rows[k].o1), history[k].num1)
                  /\ DecEq(DecimalFromStr(file'.rows[k].o2), history[k].num2)
            /\ history' = history]_vars

\* A history of two entries has been saved.
C18_Witness ==
    /\ last.op = "save" /\ last.res = "saved"
    /\ Len(history) = 2
    /\ file.kind = "csv" /\ Len(file.rows) = 2

\* C19: a save of an empty history does not fail, leaves the file, present
\* or absent, exactly as it was, and reports that there is nothing to save.
C19_EmptySaveWritesNothing ==
    [][(last'.op = "save" /\ history = <<>>)
         => /\ file' = file
            /\ last'.res = "nothing to save"
            /\ history' = history]_vars

\* An empty history has been saved while the file held a record.
C19_Witness ==
    /\ last.op = "save" /\ last.res = "nothing to save"
    /\ history = <<>>
    /\ file.kind = "csv" /\ Len(file.rows) = 1

\* C20: add_calculation(c) succeeds and the history afterwards is the
\* history before followed by c.
C20_AddAppendsAtEnd ==
    [][last'.op = "add"
         => /\ last'.res = "ok"
            /\ Len(last'.arg) = 1
            /\ history' = history \o last'.arg]_vars

\* An entry has been added behind two different earlier entries.
C20_Witness ==
    /\ last.op = "add"
    /\ Len(history) = 3
    /\ history[1] # history[2]
    /\ history[3] = last.arg[1]
    /\ history[3] # history[1]

\* C21: get_latest_history returns the last entry of a non-empty history
\* and None for an empty one, and leaves the history as it was.
C21_LatestIsLastEntry ==
    [][last'.op = "latest"
         => /\ history' = history
            /\ history = <<>> => (last'.res = "None" /\ last'.arg = <<>>)
            /\ history # <<>> => (last'.res = "entry"
                                  /\ last'.arg = <<history[Len(history)]>>)]_vars

\* The latest entry of a history of three has been returned, and it is not
\* the first one.
C21_Witness ==
    /\ last.op = "latest" /\ last.res = "entry"
    /\ Len(history) = 3
    /\ last.arg[1] = history[3]
    /\ history[3] # history[1]

\* C22: after clear_history the history has length 0, whatever it held and
\* also when it was already empty, and a get_latest_history that follows
\* returns None.
C22_ClearEmpties ==
    [][/\ last'.op = "clear" => (Len(history') = 0 /\ last'.res = "ok")
       /\ (last.op = "clear" /\ last'.op = "latest") => last'.res = "None"]_vars

\* A history of two entries has been cleared.
C22_Witness ==
    /\ last.op = "clear" /\ last.idx = 2
    /\ history = <<>>

\* C23: get_history does not change the history, and a caller cannot
\* change the stored history through the list it received: after the
\* caller has modified that list the history is what it was.
C23_ViewIsReadOnly ==
    [][last'.op \in {"get", "keep", "caller"} => history' = history]_vars

\* C24: when either operand string of calculate_and_print is no decimal
\* numeral, whichever it is, the 'Invalid number input' message is printed,
\* no operation is computed and the history is unchanged.
C24_InvalidNumberInput ==
    [][(last'.op = "calculate_and_print"
          /\ (last'.arg[1].a = "abc" \/ last'.arg[1].b = "abc"))
         => /\ last'.out[1].kind = "Invalid number input"
            /\ last'.idx = 0
            /\ last'.res = "returned"
            /\ history' = history]_vars

\* calculate_and_print has been called with a valid first and an invalid
\* second operand, while the history held an entry.
C24_Witness ==
    /\ last.op = "calculate_and_print"
    /\ last.arg[1].a = "5" /\ last.arg[1].b = "abc"
    /\ last.arg[1].name = "add"
    /\ Len(history) = 1

\* C25: perform_operation with a name other than add, subtract, multiply
\* and divide returns the 'Unknown operation' message, computes nothing and
\* leaves the history unchanged.
C25_UnknownOperation ==
    [][(last'.op = "perform"
          /\ last'.arg[1].name \notin {"add", "subtract", "multiply", "divide"})
         => /\ last'.out[1].kind = "Unknown operation"
            /\ last'.idx = 0
            /\ last'.res = "returned"
            /\ history' = history]_vars

\* perform_operation has been called with the name 'modulo' on an empty
\* history.
C25_Witness ==
    /\ last.op = "perform"
    /\ last.arg[1].name = "modulo"
    /\ history = <<>>

\* C26: perform_operation always returns a message and propagates no
\* exception: a division by a zero divisor gives 'An error occurred: Cannot
\* divide by zero', every other failure of the calculator an error message.
C26_NoExceptionPropagates ==
    [][last'.op = "perform"
         => /\ last'.res = "returned"
            /\ last'.out[1].kind \in {"The result", "Unknown operation",
                                      "An error occurred: Cannot divide by zero",
                                      "An unexpected error occurred", "str(e)"}
            /\ (last'.arg[1].name = "divide" /\ last'.arg[1].b.c = 0)
                  => last'.out[1].kind = "An error occurred: Cannot divide by zero"
            /\ (last'.arg[1].name = "multiply"
                  /\ last'.arg[1].a.inf /\ last'.arg[1].b.c = 0)
                  => last'.out[1].kind = "An unexpected error occurred"]_vars

\* The multiplication Infinity * 0 has failed inside perform_operation,
\* which has returned the message for an unexpected error.
C26_Witness ==
    /\ last.op = "perform"
    /\ last.arg[1].name = "multiply"
    /\ last.res = "returned"
    /\ last.out[1].kind = "An unexpected error occurred"

\* C27: at the index prompt of the delete action on a history of N entries,
\* a number k with 1 <= k <= N deletes the k-th entry and no other; 0, a
\* negative number, a number above N and a non-numeric input delete
\* nothing; in every case the sub-menu goes on.
C27_DeleteIsOneBased ==
    [][(sub.pc = "history" /\ sub'.n = sub.n + 1 /\ sub'.line = <<"6">>
          /\ sub'.typed.kind # "none")
         => /\ sub'.pc = "history"
            /\ IF /\ sub'.typed.kind = "int"
                  /\ 1 <= sub'.typed.v /\ sub'.typed.v <= Len(history)
               THEN /\ Len(history') = Len(history) - 1
                    /\ \A j \in 1..Len(history') :
                          history'[j] = IF j < sub'.typed.v THEN history[j]
                                        ELSE history[j + 1]
               ELSE history' = history]_vars

\* 2 has been typed at the index prompt on a history of three entries,
\* two entries are left and the sub-menu goes on.
C27_Witness ==
    /\ sub.pc = "history" /\ sub.line = <<"6">>
    /\ sub.typed = IntInput(2)
    /\ last.op = "menu" /\ last.idx = 3
    /\ Len(history) = 2

\* C28: a choice read in the history sub-menu that is none of '1'..'6' and
\* not 'exit' prints the diagnostic, leaves history and file unchanged and
\* is followed by the next prompt; and the sub-menu is left after a choice
\* only if that choice is 'exit' in some case.
C28_MenuEndsOnlyOnExit ==
    [][(sub.pc = "history" /\ sub'.n = sub.n + 1)
         => /\ (sub'.line[1] \notin {"1", "2", "3", "4", "5", "6"}
                  /\ LowerWord(sub'.line[1]) # "exit")
                  => /\ sub'.out = <<Printed("Invalid choice.")>>
                     /\ history' = history /\ file' = file
                     /\ sub'.pc = "history"
            /\ sub'.pc # "history" => LowerWord(sub'.line[1]) = "exit"]_vars

\* C29: a line read at the arithmetic sub-prompt ends the loop exactly when
\* it is 'exit' in some case; any other line that has not exactly two
\* tokens is reported as an invalid format and adds no history entry; a
\* line of exactly two tokens is passed to calculate_and_print once, with
\* the name of the operation; after both the prompt goes on.
C29_OperationPrompt ==
    [][(sub.pc = "arith" /\ sub'.n = sub.n + 1)
         => IF IsExitLine(sub'.line)
            THEN sub'.pc = "main" /\ history' = history
            ELSE /\ sub'.pc = "arith"
                 /\ IF Len(Words(sub'.line)) # 2
                    THEN /\ sub'.out = <<Message("Error: Invalid input format",
                                                 Dec(0, 0))>>
                         /\ sub'.computed = 0
                         /\ history' = history
                    ELSE /\ sub'.computed = 1
                         /\ last'.op = "calculate_and_print"
                         /\ last'.arg = <<Asked(Words(sub'.line)[1],
                                                Words(sub'.line)[2], sub.name)>>]_vars

\* A line of three tokens has been answered with the format error at the
\* prompt of divide, which goes on.
C29_Witness ==
    /\ sub.pc = "arith" /\ sub.name = "divide"
    /\ sub.line = <<"5", " ", "0", " ", "5">>
    /\ sub.out = <<Message("Error: Invalid input format", Dec(0, 0))>>
    /\ sub.n = 2

Negative(r) == [r EXCEPT !.val.c = 0 - r.val.c]

\* Two calls end alike: the same exception, or numerically equal values.
SameOutcome(r, q) ==
    /\ r.ok = q.ok /\ r.err = q.err
    /\ r.ok => DecEq(r.val, q.val)

\* C32: for every pair of operands, addition(a, b) ends as addition(b, a)
\* does, with an equal value, and subtraction(a, b) ends as
\* subtraction(b, a) does, with the negated value.
C32_SwappedArguments ==
    [][last'.op = "apply"
         => LET a == last'.arg[1].num1
                b == last'.arg[1].num2
            IN  /\ last'.arg[1].operation = "addition"
                     => SameOutcome(last'.out[1], addition(b, a))
                /\ last'.arg[1].operation = "subtraction"
                     => SameOutcome(last'.out[1], Negative(subtraction(b, a)))]_vars

\* subtraction(0.1, -0.2) has been called and has returned 0.3.
C32_Witness ==
    /\ last.op = "apply" /\ last.arg[1].operation = "subtraction"
    /\ last.arg[1].num1 = Dec(1, 0 - 1) /\ last.arg[1].num2 = Dec(0 - 2, 0 - 1)
    /\ last.out[1].ok /\ DecEq(last.out[1].val, Dec(3, 0 - 1))

\* C33: execute_command(name, args) on a name that has been registered makes
\* exactly one call of an execute method: that of the command registered
\* last under the name, with the given arguments in the given order.
C33_ExecutesRegisteredOnce ==
    [][(disp'.op = "execute"
          /\ \E k \in 1..Len(registrations) : CmdName(registrations[k]) = disp'.name)
         => LET k == CHOOSE i \in 1..Len(registrations) :
                        /\ CmdName(registrations[i]) = disp'.name
                        /\ \A j \in (i + 1)..Len(registrations) :
                              CmdName(registrations[j]) # disp'.name
            IN  disp'.invoked = <<[obj |-> registrations[k], args |-> disp'.args]>>]_vars

\* 'add' has been registered twice and then another command; a dispatch of
\* 'add' with two arguments has called the second command's execute.
C33_Witness ==
    /\ registrations = <<AddCmd, MockCmd, HistoryCmd>>
    /\ disp.op = "execute" /\ disp.name = "add" /\ disp.args = <<"1", "2">>
    /\ Len(disp.invoked) = 1 /\ disp.invoked[1].obj = MockCmd

\* The entries of the directory that load_plugins imports, with an outcome.
Packages(discovered, outcomes) ==
    SelectSeq(discovered, LAMBDA p : p.is_pkg /\ p.outcome \in outcomes)

\* C34: load_plugins returns without an exception; without the plugins
\* directory no command is registered; otherwise every package whose import
\* and registration succeed is registered, in the order of discovery, also
\* after a package that failed, every package that fails leaves the
\* commands as they were and gets one error record in the log, and modules
\* that are no packages are not loaded.
C34_LoadPluginsNeverRaises ==
    [][disp'.op = "load_plugins"
         => LET ok     == Packages(disp'.args, {"ok"})
                failed == Packages(disp'.args, {"ImportError", "Exception"})
            IN  /\ disp'.res = "returned"
                /\ IF disp'.name = ""
                   THEN commands' = commands /\ registrations' = registrations
                   ELSE /\ registrations' =
                             registrations \o [k \in 1..Len(ok) |-> ok[k].obj]
                        /\ \A k \in 1..Len(ok) :
                              \E j \in 1..Len(commands') :
                                 commands'[j] = [key |-> CmdName(ok[k].obj),
                                                 obj |-> ok[k].obj]
                        /\ \A k \in 1..Len(failed) :
                              \A j \in 1..Len(commands') :
                                 commands'[j].key = CmdName(failed[k].obj)
                                    => /\ j <= Len(commands)
                                       /\ commands'[j] = commands[j]
                        /\ Len(disp'.listing) = Len(failed)
                        /\ \A k \in 1..Len(failed) :
                              disp'.listing[k].name =
                                 IF failed[k].outcome = "ImportError"
                                 THEN "Error importing plugin"
                                 ELSE "Error loading plugin"]_vars

\* The first package has failed with an exception other than ImportError,
\* the second has been registered.
C34_Witness ==
    /\ disp.op = "load_plugins" /\ disp.name = "app/plugins"
    /\ disp.res = "returned"
    /\ Len(disp.args) = 3 /\ disp.args[1].outcome = "Exception"
    /\ disp.args[3].outcome = "ok"
    /\ commands = <<[key |-> "history", obj |-> HistoryCmd]>>

\* compute() of the entry raises the division by zero.
DividesByZero(calculation) ==
    /\ calculation.operation = "division"
    /\ ~calculation.num2.inf /\ calculation.num2.c = 0

\* C35: on a history of N entries that holds a division by zero, choice 2
\* prints N lines, the k-th with position k and 'is undefined' for every
\* division by zero; choice 1 prints 'is undefined.' when the latest entry
\* is a division by zero; after both the sub-menu goes on and the history
\* is as it was.
C35_UndefinedEntriesAreListed ==
    [][(sub.pc = "history" /\ sub'.n = sub.n + 1
          /\ sub'.line \in {<<"1">>, <<"2">>}
          /\ \E k \in 1..Len(history) : DividesByZero(history[k]))
         => /\ sub'.pc = "history"
            /\ history' = history
            /\ sub'.line = <<"2">>
                  => /\ Len(sub'.out) = Len(history)
                     /\ \A k \in 1..Len(history) :
                           /\ sub'.out[k].idx = k
                           /\ DividesByZero(history[k])
                                 <=> sub'.out[k].kind = "is undefined"
            /\ (sub'.line = <<"1">> /\ DividesByZero(history[Len(history)]))
                  => sub'.out = <<Printed("is undefined.")>>]_vars

\* C36: every call of add, subtract, multiply or divide of the Calculator
\* leaves the history as it was with one entry more at its end, made of the
\* operands of the call and of the operation of the method, whether the
\* computation returns or raises.
C36_EveryFacadeCallAppendsOne ==
    [][last'.op = "calc"
         => /\ Len(calls') = Len(calls) + 1
            /\ Len(history') = Len(history) + 1
            /\ SubSeq(history', 1, Len(history)) = history
            /\ LET c == calls'[Len(calls')]
                   e == history'[Len(history')]
               IN  /\ e.num1 = c.a /\ e.num2 = c.b
                   /\ c.method = "add"      => e.operation = "addition"
                   /\ c.method = "subtract" => e.operation = "subtraction"
                   /\ c.method = "multiply" => e.operation = "multiplication"
                   /\ c.method = "divide"   => e.operation = "division"]_vars

\* multiply(Infinity, 0) has raised InvalidOperation as the second call and
\* is the second entry of the history.
C36_Witness ==
    /\ last.op = "calc" /\ last.res = "InvalidOperation"
    /\ Len(calls) = 2 /\ calls[2].method = "multiply"
    /\ Len(history) = 2
    /\ history[2] = create_calculation(Infinity(1), Dec(0, 0), "multiplication")

\* C37: clear_history leaves the backing file as it was, and once a
\* non-empty history h has been saved, clear_history() followed by
\* load_history_from_csv() yields h again: the same length, and the same
\* operation and operands at each position.
C37_ClearIsNotDurable ==
    [][/\ last'.op = "clear" => file' = file
       /\ (last'.op = "save" /\ history' # <<>>)
             => SameHistory(load_history_from_csv(clear_history(history'),
                                                  file').history,
                            history')]_vars

\* C38: a load from a CSV file either takes every record with one of the
\* four operation names or none: when an operand of such a record is no
\* numeral the load fails and the history is as it was, also when records
\* before it can be converted; otherwise the load succeeds with one entry
\* per such record, in file order, whatever the operands of the records
\* with other operation names are.
C38_LoadIsAllOrNothing ==
    [][(last'.op = "load" /\ file.kind = "csv")
         => LET known == SelectSeq(file.rows, LAMBDA r : r.op \in FourNames)
            IN  IF \E k \in 1..Len(known) :
                      "text" \in {known[k].o1.kind, known[k].o2.kind}
                THEN last'.res = "Exception" /\ history' = history
                ELSE /\ last'.res = "loaded"
                     /\ Len(history') = Len(known)
                     /\ \A k \in 1..Len(known) :
                           /\ history'[k].operation = known[k].op
                           /\ SameNumber(history'[k].num1, known[k].o1)
                           /\ SameNumber(history'[k].num2, known[k].o2)]_vars

\* A load has failed on the second record of a file whose first record can
\* be converted, and the two entries in memory are still there.
C38_Witness ==
    /\ last.op = "load" /\ last.res = "Exception"
    /\ file.kind = "csv" /\ Len(file.rows) = 2
    /\ file.rows[1].o1.kind = "num" /\ file.rows[1].op = "addition"
    /\ file.rows[2].o1.kind = "text"
    /\ Len(history) = 2

\* C39: once start() has registered its commands, the name 'show_menu' is
\* registered, once, and bound to the DynamicMenuCommand, also when a plugin
\* has registered a command of that name; and every dispatch of 'show_menu'
\* the loop has made, for an empty line or an unknown command, has found
\* the DynamicMenuCommand.
C39_MenuAlwaysRegistered ==
    /\ repl.pc # "init"
          => /\ \E k \in 1..Len(commands) :
                   commands[k] = [key |-> "show_menu", obj |-> MenuCmd]
             /\ Cardinality({k \in 1..Len(commands) :
                                commands[k].key = "show_menu"}) = 1
    /\ \A k \in 1..Len(repl.log) :
          (repl.log[k].ev = "execute" /\ repl.log[k].name = "show_menu")
             => repl.log[k].obj = MenuCmd

\* A plugin has registered a command named 'show_menu' before the menu
\* command; an unknown command and then an empty line have been read, and
\* the loop is at the prompt after showing the menu.
C39_Witness ==
    /\ repl.pc = "prompt" /\ repl.n = 2 /\ repl.line = <<>>
    /\ \E k \in 1..Len(registrations) : registrations[k] = PluginMenuCmd
    /\ repl.log[Len(repl.log)].ev = "execute"
    /\ repl.log[Len(repl.log)].name = "show_menu"
    /\ repl.log[Len(repl.log)].obj = MenuCmd
    /\ \E k \in 1..Len(repl.log) : repl.log[k].name = "Unknown command"

\* C40: whenever an operation changes the backing file, the file it leaves
\* is a CSV file with one record per entry of the history and at least one
\* record; and a save that follows a clear_history leaves the file as it
\* was.
C40_NoEmptyFileWritten ==
    [][/\ file' # file
             => /\ file'.kind = "csv"
                /\ Len(file'.rows) >= 1
                /\ Len(file'.rows) = Len(history')
       /\ (last.op = "clear" /\ last'.op = "save") => file' = file]_vars

\* A delete has emptied the history, and the file still holds the two
\* records saved before.
C40_Witness ==
    /\ last.op = "delete" /\ last.res = "ok"
    /\ history = <<>>
    /\ file.kind = "csv" /\ Len(file.rows) = 2
    /\ file.rows[1].op = "subtraction"

\* C30: compute() returns operation(num1, num2) for the operands and the
\* operation of the Calculation, or fails as that call fails; it changes
\* neither the history nor its entries, and a second compute() on the same
\* entry ends as the first one did.
C30_ComputeIsPure ==
    [][last'.op = "compute"
         => /\ history' = history
            /\ last'.arg = <<history[last'.idx]>>
            /\ LET c == history[last'.idx]
                   r == last'.out[1]
                   d == division(c.num1, c.num2)
               IN  CASE c.operation = "addition" ->
                          r = addition(c.num1, c.num2)
                     [] c.operation = "subtraction" ->
                          r = subtraction(c.num1, c.num2)
                     [] c.operation = "multiplication" ->
                          r = multiplication(c.num1, c.num2)
                     [] c.operation = "division" ->
                          /\ r = d
                          /\ c.num2.c = 0 => last'.res = "ZeroDivisionError"
            /\ (last.op = "compute" /\ last.idx = last'.idx)
                  => (last'.out = last.out /\ last'.res = last.res)]_vars

\* The division by zero in second place of the history has been computed
\* and has failed.
C30_Witness ==
    /\ last.op = "compute" /\ last.idx = 2
    /\ last.res = "ZeroDivisionError"
    /\ Len(history) = 3

====
